---- MODULE Spec2Model ----
(***************************************************************************)
(* Snake Q-learning: the grid simulator (env.py), the tabular agent        *)
(* (agent.py) and the evaluation loop (evaluate.py).                       *)
(*                                                                         *)
(* Cells are pairs <<x, y>>.  Rewards and table values are fixed-point     *)
(* numbers in hundredths (Scale), so -10.0 is -1000 and -0.01 is -1.       *)
(* A Python dict is a function whose DOMAIN is its key set; the info dict  *)
(* of step is a set of <<key, value>> pairs.                               *)
(***************************************************************************)
EXTENDS Integers, Sequences, FiniteSets, TLC

\* ---- bounds of the model ----
MaxN == 3          \* grid sizes 1..MaxN are explored
MaxSteps == 6      \* cap on the env step counter
MaxUpdates == 1    \* cap on the number of QTable.update calls
MaxEpisodes == 2   \* evaluate runs 0..MaxEpisodes episodes
WideEpisodes == 1  \* train runs 0..WideEpisodes episodes on the grids of WideGrids

\* ---- program constants (hundredths) ----
Scale == 100
RewardDie == -1000
RewardStep == -1
RewardEat == 1000
RewardCloser == 5
RewardFarther == -2
StartDir == 1
DefaultAction == 1
ActionCount == 3
DefaultN == 12

VARIABLES
  n,          \* SnakeEnv.n
  dir,        \* SnakeEnv.dir, 0..3 = U, R, D, L
  snake,      \* SnakeEnv.snake, head first
  food,       \* SnakeEnv.food
  steps,      \* SnakeEnv.steps
  prev_dist,  \* SnakeEnv.prev_dist
  pc,         \* "new" after __init__, "ready" after a call returned, "raised" after an exception
  call,       \* the last call made on the env: [op, action]
  ret,        \* what the last call returned: [state, reward, done, info]
  Q,          \* QTable.Q, a function from the keys present to value vectors
  qcall,      \* the last call made on the table, with its arguments
  qret,       \* the action the last act returned
  nupd,       \* number of update calls made
  snapshot,   \* the pickled file QTable.save wrote
  saved,      \* the table as it was when save was called
  episodes,   \* evaluate: the episodes argument
  max_steps,  \* evaluate: the max_steps argument
  ep,         \* evaluate: episodes completed
  lsteps,     \* evaluate: steps of the current episode
  score,      \* evaluate: score of the current episode
  totals,     \* evaluate: scores of the completed episodes
  lpc,        \* evaluate: "for" at the episode loop, "while" in the step loop,
              \* "returned", "raised", or "idle" when no loop is running
  result,     \* the record evaluate / train returned
  best,       \* train: the best score so far and its episode
  train_eps,  \* train: eps, the exploration rate of the current episode
  eps_start,  \* train: the eps_start argument
  eps_end,    \* train: the eps_end argument
  mode        \* main: args.mode, "eval" or "train"; "none" when no loop is running

envVars == <<n, dir, snake, food, steps, prev_dist, pc, call, ret>>

agentVars == <<Q, qcall, qret, nupd, snapshot, saved>>

trainVars == <<best, train_eps, eps_start, eps_end>>

loopVars == <<episodes, max_steps, ep, lsteps, score, totals, lpc, result, trainVars, mode>>

Actions == {0, 1, 2}

\* DIRS = [(0,-1), (1,0), (0,1), (-1,0)], indexed from 1 here
DIRS == << <<0, -1>>, <<1, 0>>, <<0, 1>>, <<-1, 0>> >>

Abs(x) == IF x < 0 THEN -x ELSE x

\* slip: the larger of the two coordinate gaps instead of their sum
_manhattan_cheb(a, b) ==
  IF Abs(a[1] - b[1]) >= Abs(a[2] - b[2]) THEN Abs(a[1] - b[1]) ELSE Abs(a[2] - b[2])

_manhattan(a, b) == Abs(a[1] - b[1]) + Abs(a[2] - b[2])

\* slip: ">" for ">=", so x = n and y = n count as inside
_out_of_bounds_gt(pos, size) ==
  pos[1] < 0 \/ pos[1] > size \/ pos[2] < 0 \/ pos[2] > size

_out_of_bounds(pos, size) ==
  pos[1] < 0 \/ pos[1] >= size \/ pos[2] < 0 \/ pos[2] >= size

\* slip: left and right are exchanged
_turn_swapped(d, action) ==
  IF action = 0 THEN (d + 1) % 4
  ELSE IF action = 2 THEN (d - 1) % 4
  ELSE d

_turn(d, action) ==
  IF action = 0 THEN (d - 1) % 4
  ELSE IF action = 2 THEN (d + 1) % 4
  ELSE d

\* x in list
InSeq(x, sq) == \E i \in 1..Len(sq) : sq[i] = x

\* list[:-1]
ButLast(sq) == SubSeq(sq, 1, Len(sq) - 1)

SetOf(sq) == {sq[i] : i \in 1..Len(sq)}

Ahead(head, d) == <<head[1] + DIRS[d + 1][1], head[2] + DIRS[d + 1][2]>>

\* slip: the snake cells are not removed from the candidates
FoodCells_all(size, body) ==
  {<<x, y>> : x \in 0..(size - 1), y \in 0..(size - 1)}

\* the candidate cells of _place_food
FoodCells(size, body) ==
  {<<x, y>> : x \in 0..(size - 1), y \in 0..(size - 1)} \ SetOf(body)

\* slip: the tail is not excluded
_danger_tail(rel, d, body, size) ==
  LET nd == (d + rel) % 4
      nxt == Ahead(body[1], nd)
  IN IF _out_of_bounds(nxt, size) \/ InSeq(nxt, body) THEN 1 ELSE 0

_danger(rel, d, body, size) ==
  LET nd == (d + rel) % 4
      nxt == Ahead(body[1], nd)
  IN IF _out_of_bounds(nxt, size) \/ InSeq(nxt, ButLast(body)) THEN 1 ELSE 0

Sign(a, b) == IF a = b THEN 0 ELSE IF a > b THEN 1 ELSE -1

\* slip: danger-left and danger-right are exchanged
_state_swapped(body, f, d, size) ==
  << _danger(1, d, body, size), _danger(0, d, body, size), _danger(-1, d, body, size),
     Sign(f[1], body[1][1]), Sign(f[2], body[1][2]), d >>

_state(body, f, d, size) ==
  << _danger(-1, d, body, size), _danger(0, d, body, size), _danger(1, d, body, size),
     Sign(f[1], body[1][1]), Sign(f[2], body[1][2]), d >>

\* slip: the tail exception is left out
CollisionBody_full(body, will_eat) == body

\* slip: snake[:-2] for snake[:-1]
CollisionBody_short(body, will_eat) == IF will_eat THEN body ELSE ButLast(ButLast(body))

\* the cells step tests the proposed head against
CollisionBody(body, will_eat) == IF will_eat THEN body ELSE ButLast(body)

\* slip: the tail is popped on an eating step too
Commit_pop(new_head, body, will_eat) == ButLast(<<new_head>> \o body)

\* self.snake after the move: insert(0, new_head), and pop() unless it ate
Commit(new_head, body, will_eat) ==
  IF will_eat THEN <<new_head>> \o body ELSE ButLast(<<new_head>> \o body)

\* slip: every committed step reports that it ate
MoveInfo_true(will_eat) == {<<"ate", TRUE>>}

\* slip: the committed step returns the empty dict as well
MoveInfo_empty(will_eat) == {}

\* the info dict of a terminating / a committed step
DeathInfo == {}

MoveInfo(will_eat) == {<<"ate", will_eat>>}

\* slip: "<=" for "<", so an unchanged distance earns the bonus
Shaping_le(dist, prev) ==
  IF dist <= prev THEN RewardCloser
  ELSE IF dist > prev THEN RewardFarther
  ELSE 0

\* shaping term of step
Shaping(dist, prev) ==
  IF dist < prev THEN RewardCloser
  ELSE IF dist > prev THEN RewardFarther
  ELSE 0

\* the fields __init__ sets besides n
EnvFields ==
  /\ dir = 1
  /\ snake = <<>>
  /\ food = <<0, 0>>
  /\ steps = 0
  /\ prev_dist = 0
  /\ pc = "new"
  /\ call = [op |-> "init", action |-> DefaultAction]
  /\ ret = [state |-> <<>>, reward |-> 0, done |-> FALSE, info |-> {}]

EnvInit == n \in 1..MaxN /\ EnvFields

\* slip: the second cell is put ahead of the head instead of behind it
StartBody_ahead(size) == << <<size \div 2, size \div 2>>, <<(size \div 2) + 1, size \div 2>> >>

StartBody(size) == << <<size \div 2, size \div 2>>, <<(size \div 2) - 1, size \div 2>> >>

\* SnakeEnv.reset; rng.choice of an empty list raises IndexError
Reset ==
  /\ pc \in {"new", "ready"}
  /\ LET body == StartBody(n)
         cells == FoodCells(n, body)
     IN /\ dir' = StartDir
        /\ snake' = body
        /\ call' = [op |-> "reset", action |-> DefaultAction]
        /\ n' = n
        /\ IF cells = {}
           THEN /\ pc' = "raised"
                /\ UNCHANGED <<food, steps, prev_dist, ret>>
           ELSE \E f \in cells :
                /\ food' = f
                /\ steps' = 0
                /\ prev_dist' = _manhattan(body[1], f)
                /\ ret' = [state |-> _state(body, f, StartDir, n), reward |-> 0,
                           done |-> FALSE, info |-> {}]
                /\ pc' = "ready"

\* SnakeEnv.step(action)
Step(action) ==
  /\ pc = "ready"
  /\ steps < MaxSteps
  /\ LET d == _turn(dir, action)
         new_head == Ahead(snake[1], d)
         will_eat == (new_head = food)
         body == CollisionBody(snake, will_eat)
     IN /\ dir' = d
        /\ call' = [op |-> "step", action |-> action]
        /\ n' = n
        /\ IF _out_of_bounds(new_head, n) \/ InSeq(new_head, body)
           THEN /\ ret' = [state |-> _state(snake, food, d, n), reward |-> RewardDie,
                           done |-> TRUE, info |-> DeathInfo]
                /\ pc' = "ready"
                /\ UNCHANGED <<snake, food, steps, prev_dist>>
           ELSE IF will_eat
           THEN LET grown == Commit(new_head, snake, TRUE)
                    cells == FoodCells(n, grown)
                IN /\ snake' = grown
                   /\ IF cells = {}
                      THEN /\ pc' = "raised"
                           /\ UNCHANGED <<food, steps, prev_dist, ret>>
                      ELSE \E f \in cells :
                           LET dist == _manhattan(new_head, f)
                           IN /\ food' = f
                              /\ prev_dist' = dist
                              /\ steps' = steps + 1
                              /\ ret' = [state |-> _state(grown, f, d, n),
                                         reward |-> RewardStep + RewardEat + Shaping(dist, prev_dist),
                                         done |-> FALSE, info |-> MoveInfo(TRUE)]
                              /\ pc' = "ready"
           ELSE LET moved == Commit(new_head, snake, FALSE)
                    dist == _manhattan(new_head, food)
                IN /\ snake' = moved
                   /\ food' = food
                   /\ prev_dist' = dist
                   /\ steps' = steps + 1
                   /\ ret' = [state |-> _state(moved, food, d, n),
                              reward |-> RewardStep + Shaping(dist, prev_dist),
                              done |-> FALSE, info |-> MoveInfo(FALSE)]
                   /\ pc' = "ready"


(***************************************************************************)
(* The tabular agent (agent.py)                                            *)
(***************************************************************************)
\* np.zeros(actions); entry i + 1 is the value of action i
Zeros == [i \in 1..ActionCount |-> 0]

\* the table after self.Q[key] on the defaultdict: an absent key is created
GetItem(table, key) ==
  IF key \in DOMAIN table THEN table ELSE table @@ (key :> Zeros)

\* np.max
NpMax(vec) == CHOOSE m \in {vec[i] : i \in 1..Len(vec)} : \A i \in 1..Len(vec) : vec[i] <= m

\* slip: only the first maximizer (np.argmax) is kept
Maximizers_first(vec) ==
  {CHOOSE i \in 0..(Len(vec) - 1) :
     vec[i + 1] = NpMax(vec) /\ \A j \in 0..(Len(vec) - 1) : vec[j + 1] = NpMax(vec) => i <= j}

\* idxs = [i for i, v in enumerate(q) if v == m]
Maximizers(vec) == {i \in 0..(Len(vec) - 1) : vec[i + 1] = NpMax(vec)}

\* np.argmax: the first maximizer
NpArgmax(vec) ==
  CHOOSE i \in Maximizers(vec) : \A j \in Maximizers(vec) : i <= j

\* product of two fixed-point numbers, rounded down
FMul(x, y) == (x * y) \div Scale

\* slip: the bootstrap term reads Q[s] instead of Q[s2]
UpdateTable_s(table, s, a, r, s2, alpha, gamma) ==
  LET t1 == GetItem(table, s)
      qsa == t1[s][a + 1]
      td == r + FMul(gamma, NpMax(t1[s])) - qsa
  IN [t1 EXCEPT ![s][a + 1] = qsa + FMul(alpha, td)]

\* the table after QTable.update(s, a, r, s2, alpha, gamma)
UpdateTable(table, s, a, r, s2, alpha, gamma) ==
  LET t1 == GetItem(table, s)
      qsa == t1[s][a + 1]
      t2 == GetItem(t1, s2)
      td == r + FMul(gamma, NpMax(t2[s2])) - qsa
      t3 == GetItem(t2, s)
  IN [t3 EXCEPT ![s][a + 1] = qsa + FMul(alpha, td)]

\* ---- inputs of the agent specification ----
\* two encoded states the simulator produces on a 3 x 3 grid
QKeys == { <<0, 0, 0, 1, 0, 1>>, <<0, 1, 0, -1, -1, 1>> }
QVectors == { <<0, 0, 0>>, <<100, 0, -100>>, <<0, 100, 100>> }
Epsilons == {0, 50}
\* outcomes of random.random(), in [0, 1)
RandomDraws == {0, 99}
Rewards == {-1000, 999}
Alphas == {5, 30}
Gammas == {90}

NoCall == [op |-> "none", s |-> <<>>, a |-> 0, r |-> 0, s2 |-> <<>>,
           alpha |-> 0, gamma |-> 0, eps |-> 0]

\* no file written yet
NoSnapshot == [actions |-> 0, Q |-> {}]

\* pickle.dump({"actions": self.actions, "Q": dict(self.Q)}): the items of the dict
Pickle(table) ==
  [actions |-> ActionCount, Q |-> {<<k, table[k]>> : k \in DOMAIN table}]

\* slip: the entries are looked up on the new defaultdict instead of assigned
LoadTable_zeros(obj) ==
  [k \in {p[1] : p \in obj.Q} |-> [i \in 1..obj.actions |-> 0]]

\* the table QTable.load builds: agent.Q[k] = np.array(v, dtype=np.float32) per item
LoadTable(obj) ==
  [k \in {p[1] : p \in obj.Q} |-> (CHOOSE p \in obj.Q : p[1] = k)[2]]

\* QTable.__init__
AgentNew ==
  /\ Q = <<>>
  /\ qcall = NoCall
  /\ qret = 0
  /\ nupd = 0
  /\ snapshot = NoSnapshot
  /\ saved = <<>>

\* a table as QTable.load builds it from a snapshot
AgentLoaded ==
  /\ Q \in UNION {[ks -> QVectors] : ks \in SUBSET QKeys}
  /\ qcall = NoCall
  /\ qret = 0
  /\ nupd = 0
  /\ snapshot = NoSnapshot
  /\ saved = <<>>

\* QTable.act(state, eps)
Act(state, eps) ==
  /\ qcall' = [NoCall EXCEPT !.op = "act", !.s = state, !.eps = eps]
  /\ nupd' = nupd
  /\ UNCHANGED <<snapshot, saved>>
  /\ \E u \in RandomDraws :
       IF u < eps
       THEN /\ qret' \in 0..(ActionCount - 1)
            /\ Q' = Q
       ELSE /\ Q' = GetItem(Q, state)
            /\ qret' \in Maximizers(Q'[state])

\* QTable.update(s, a, r, s2, alpha, gamma)
Update(s, a, r, s2, alpha, gamma) ==
  /\ nupd < MaxUpdates
  /\ nupd' = nupd + 1
  /\ qcall' = [op |-> "update", s |-> s, a |-> a, r |-> r, s2 |-> s2,
               alpha |-> alpha, gamma |-> gamma, eps |-> 0]
  /\ qret' = qret
  /\ Q' = UpdateTable(Q, s, a, r, s2, alpha, gamma)
  /\ UNCHANGED <<snapshot, saved>>

\* QTable.greedy(state)
Greedy(state) ==
  /\ qcall' = [NoCall EXCEPT !.op = "greedy", !.s = state]
  /\ Q' = GetItem(Q, state)
  /\ qret' = NpArgmax(Q'[state])
  /\ UNCHANGED <<nupd, snapshot, saved>>

\* QTable.save(path)
Save ==
  /\ qcall' = [NoCall EXCEPT !.op = "save"]
  /\ snapshot' = Pickle(Q)
  /\ saved' = Q
  /\ UNCHANGED <<Q, qret, nupd>>

\* QTable.load(path), of a file save wrote; the loaded table replaces Q
Load ==
  /\ snapshot # NoSnapshot
  /\ qcall' = [NoCall EXCEPT !.op = "load"]
  /\ Q' = LoadTable(snapshot)
  /\ UNCHANGED <<qret, nupd, snapshot, saved>>

(***************************************************************************)
(* The evaluation loop (evaluate.py)                                       *)
(***************************************************************************)
\* slip: the lookup is made without the "s in Q.Q" test, as QTable.greedy does
EvalPolicy_lazy(table, st) ==
  [Q |-> GetItem(table, st), a |-> NpArgmax(GetItem(table, st)[st])]

\* a = int(np.argmax(Q.Q[s])) if s in Q.Q else 1, and the table it leaves
EvalPolicy(table, st) ==
  IF st \in DOMAIN table
  THEN [Q |-> GetItem(table, st), a |-> NpArgmax(GetItem(table, st)[st])]
  ELSE [Q |-> table, a |-> DefaultAction]

\* the step caps explored
StepCaps == {2, MaxSteps}

\* a float: nan, or a fixed-point value
NaN == [nan |-> TRUE, v |-> 0]

Float(x) == [nan |-> FALSE, v |-> x]

RECURSIVE SeqSum(_)
SeqSum(sq) == IF sq = <<>> THEN 0 ELSE sq[1] + SeqSum(Tail(sq))

SumSq(sq) == SeqSum([i \in 1..Len(sq) |-> sq[i] * sq[i]])

\* arr.mean(): nan (with a warning) for an empty array
NpMean(sq) ==
  IF sq = <<>> THEN NaN ELSE Float((SeqSum(sq) * Scale) \div Len(sq))

\* arr.std() squared: the mean squared deviation, nan for an empty array
NpVar(sq) ==
  IF sq = <<>> THEN NaN
  ELSE Float(((Len(sq) * SumSq(sq) - SeqSum(sq) * SeqSum(sq)) * Scale) \div (Len(sq) * Len(sq)))

SeqMax(sq) == CHOOSE m \in SetOf(sq) : \A i \in 1..Len(sq) : sq[i] <= m

SeqMin(sq) == CHOOSE m \in SetOf(sq) : \A i \in 1..Len(sq) : sq[i] >= m

NoResult == [kind |-> "none"]

\* the dict evaluate returns; arr.max() of an empty array raises ValueError
EvalStats(tot, eps_n, size) ==
  IF tot = <<>>
  THEN [kind |-> "eval", raised |-> TRUE, episodes |-> eps_n, grid |-> size,
        mean_score |-> NpMean(tot), var_score |-> NpVar(tot),
        max_score |-> 0, min_score |-> 0]
  ELSE [kind |-> "eval", raised |-> FALSE, episodes |-> eps_n, grid |-> size,
        mean_score |-> NpMean(tot), var_score |-> NpVar(tot),
        max_score |-> SeqMax(tot), min_score |-> SeqMin(tot)]

\* best = {"score": -1, "episode": -1}
NoBest == [score |-> -1, episode |-> -1]

LoopIdle ==
  /\ episodes = 0 /\ max_steps = 0 /\ ep = 0 /\ lsteps = 0 /\ score = 0
  /\ totals = <<>> /\ lpc = "idle" /\ result = NoResult
  /\ best = NoBest /\ train_eps = 0 /\ eps_start = 0 /\ eps_end = 0
  /\ mode = "none"

\* evaluate(Q, episodes, n, seed, max_steps) up to the episode loop
EvalInit ==
  /\ EnvInit
  /\ AgentLoaded
  /\ episodes \in 0..MaxEpisodes
  /\ max_steps \in StepCaps
  /\ ep = 0 /\ lsteps = 0 /\ score = 0
  /\ totals = <<>>
  /\ lpc = "for"
  /\ result = NoResult
  /\ best = NoBest /\ train_eps = 0 /\ eps_start = 0 /\ eps_end = 0
  /\ mode = "eval"

\* s = env.reset(); steps = score = 0; done = False
EvalReset ==
  /\ lpc = "for"
  /\ ep < episodes
  /\ Reset
  /\ lpc' = IF pc' = "raised" THEN "raised" ELSE "while"
  /\ lsteps' = 0
  /\ score' = 0
  /\ UNCHANGED <<mode, agentVars, episodes, max_steps, ep, totals, result, trainVars>>

\* one pass of the while loop; s and done are ret.state and ret.done
EvalStep ==
  /\ lpc = "while"
  /\ ~ret.done
  /\ lsteps < max_steps
  /\ LET pol == EvalPolicy(Q, ret.state)
     IN /\ Q' = pol.Q
        /\ Step(pol.a)
  /\ IF pc' = "raised"
     THEN /\ lpc' = "raised"
          /\ UNCHANGED <<score, lsteps>>
     ELSE /\ lpc' = "while"
          /\ score' = IF <<"ate", TRUE>> \in ret'.info THEN score + 1 ELSE score
          /\ lsteps' = lsteps + 1
  /\ UNCHANGED <<mode, qcall, qret, nupd, snapshot, saved, episodes, max_steps, ep, totals, result, trainVars>>

\* the while loop ends: totals.append(score)
EvalEpisodeEnd ==
  /\ lpc = "while"
  /\ ret.done \/ lsteps >= max_steps
  /\ totals' = Append(totals, score)
  /\ ep' = ep + 1
  /\ lpc' = "for"
  /\ UNCHANGED <<mode, envVars, agentVars, episodes, max_steps, lsteps, score, result, trainVars>>

\* the statistics after the loop; arr.max() of an empty array raises ValueError
EvalReturn ==
  /\ lpc = "for"
  /\ ep = episodes
  /\ LET st == EvalStats(totals, episodes, n)
     IN IF st.raised
        THEN lpc' = "raised" /\ result' = result
        ELSE lpc' = "returned" /\ result' = st
  /\ UNCHANGED <<mode, envVars, agentVars, episodes, max_steps, ep, lsteps, score, totals, trainVars>>

(***************************************************************************)
(* The training loop (train.py)                                            *)
(***************************************************************************)
TrainAlpha == 5
TrainGamma == 90

\* ---- inputs of the training specification ----
TrainGrids == {1, 2}
WideGrids == {3}
TrainCaps == {2, 3}
EpsStarts == {50, 100}
EpsEnds == {0, 50}

Max2(x, y) == IF x >= y THEN x ELSE y

\* slip: the episode index is taken from 0 instead of 1
EpsOf_zero(e, total, es, ee) ==
  Max2(ee, es - FMul(es - ee, ((e - 1) * Scale) \div Max2(1, total)))

\* eps = max(eps_end, eps_start - (eps_start - eps_end) * (ep / eps_decay))
EpsOf(e, total, es, ee) ==
  Max2(ee, es - FMul(es - ee, (e * Scale) \div Max2(1, total)))

\* slip: ">=" for ">", so a later episode with an equal score takes the bookmark
BestAfter_ge(b, sc, e) ==
  IF sc >= b.score THEN [score |-> sc, episode |-> e] ELSE b

\* if score > best["score"]: best = {"score": score, "episode": ep}
BestAfter(b, sc, e) ==
  IF sc > b.score THEN [score |-> sc, episode |-> e] ELSE b

\* what Q.act(state, e) can leave and return: the table and the action
ActOutcomes(table, state, e) ==
  {[Q |-> table, a |-> a] : a \in {x \in 0..(ActionCount - 1) : \E u \in RandomDraws : u < e}}
  \cup
  {[Q |-> GetItem(table, state), a |-> a] :
     a \in {x \in Maximizers(GetItem(table, state)[state]) : \E u \in RandomDraws : ~(u < e)}}

\* scores[-100:]
Last100(sq) == IF Len(sq) <= 100 THEN sq ELSE SubSeq(sq, Len(sq) - 99, Len(sq))

\* the metrics dict of train
Metrics(sc, b) ==
  [kind |-> "train", episodes |-> episodes, grid |-> n,
   alpha |-> TrainAlpha, gamma |-> TrainGamma,
   eps_start |-> eps_start, eps_end |-> eps_end, max_steps |-> max_steps,
   mean_score |-> IF sc = <<>> THEN Float(0) ELSE NpMean(sc),
   var_score |-> IF sc = <<>> THEN Float(0) ELSE NpVar(sc),
   last100_mean |-> IF sc = <<>> THEN Float(0) ELSE NpMean(Last100(sc)),
   best_score |-> b.score, best_episode |-> b.episode]

\* train(episodes, n, ...) up to the episode loop
TrainInit ==
  /\ n \in TrainGrids \cup WideGrids
  /\ EnvFields
  /\ AgentNew
  /\ episodes \in 0..MaxEpisodes
  /\ (n \in WideGrids => episodes <= WideEpisodes)
  /\ max_steps \in TrainCaps
  /\ eps_start \in EpsStarts
  /\ eps_end \in EpsEnds
  /\ eps_start >= eps_end
  /\ ep = 0 /\ lsteps = 0 /\ score = 0
  /\ totals = <<>>
  /\ best = NoBest
  /\ train_eps = 0
  /\ lpc = "for"
  /\ result = NoResult
  /\ mode = "train"

\* s = env.reset(); score = steps = 0; done = False; eps = ...
TrainReset ==
  /\ lpc = "for"
  /\ ep < episodes
  /\ Reset
  /\ IF pc' = "raised"
     THEN /\ lpc' = "raised"
          /\ UNCHANGED <<lsteps, score, train_eps>>
     ELSE /\ lpc' = "while"
          /\ lsteps' = 0
          /\ score' = 0
          /\ train_eps' = EpsOf(ep + 1, episodes, eps_start, eps_end)
  /\ UNCHANGED <<mode, agentVars, episodes, max_steps, ep, totals, result, best, eps_start, eps_end>>

\* one pass of the while loop: act, step, update; s is ret.state
TrainStep ==
  /\ lpc = "while"
  /\ ~ret.done
  /\ lsteps < max_steps
  /\ \E o \in ActOutcomes(Q, ret.state, train_eps) :
       /\ Step(o.a)
       /\ qret' = o.a
       /\ IF pc' = "raised"
          THEN /\ Q' = o.Q
               /\ qcall' = [NoCall EXCEPT !.op = "act", !.s = ret.state, !.eps = train_eps]
               /\ lpc' = "raised"
               /\ UNCHANGED <<score, lsteps>>
          ELSE /\ Q' = UpdateTable(o.Q, ret.state, o.a, ret'.reward, ret'.state,
                                   TrainAlpha, TrainGamma)
               /\ qcall' = [op |-> "update", s |-> ret.state, a |-> o.a, r |-> ret'.reward,
                            s2 |-> ret'.state, alpha |-> TrainAlpha, gamma |-> TrainGamma,
                            eps |-> train_eps]
               /\ lpc' = "while"
               /\ score' = IF <<"ate", TRUE>> \in ret'.info THEN score + 1 ELSE score
               /\ lsteps' = lsteps + 1
  /\ UNCHANGED <<mode, nupd, snapshot, saved, episodes, max_steps, ep, totals, result, trainVars>>

\* the while loop ends: scores.append(score) and the best-score bookmark
TrainEpisodeEnd ==
  /\ lpc = "while"
  /\ ret.done \/ lsteps >= max_steps
  /\ totals' = Append(totals, score)
  /\ best' = BestAfter(best, score, ep + 1)
  /\ ep' = ep + 1
  /\ lpc' = "for"
  /\ UNCHANGED <<mode, envVars, agentVars, episodes, max_steps, lsteps, score, result,
                 train_eps, eps_start, eps_end>>

\* env.close() and the metrics summary
TrainReturn ==
  /\ lpc = "for"
  /\ ep = episodes
  /\ result' = Metrics(totals, best)
  /\ lpc' = "returned"
  /\ UNCHANGED <<mode, envVars, agentVars, episodes, max_steps, ep, lsteps, score, totals, trainVars>>

vars == <<envVars, agentVars, loopVars>>

\* ---- the simulator on its own ----
Init == EnvInit /\ AgentNew /\ LoopIdle

Next ==
  \/ Reset /\ UNCHANGED <<agentVars, loopVars>>
  \/ \E a \in Actions : Step(a) /\ UNCHANGED <<agentVars, loopVars>>

Spec == Init /\ [][Next]_vars

\* ---- the default 12 x 12 grid, going straight only ----
InitLine == n = DefaultN /\ EnvFields /\ AgentNew /\ LoopIdle

NextLine ==
  \/ Reset /\ UNCHANGED <<agentVars, loopVars>>
  \/ Step(1) /\ UNCHANGED <<agentVars, loopVars>>

SpecLine == InitLine /\ [][NextLine]_vars

\* ---- the agent on its own ----
InitQ == EnvInit /\ n = MaxN /\ AgentLoaded /\ LoopIdle

NextQ ==
  \/ \E st \in QKeys, eps \in Epsilons : Act(st, eps) /\ UNCHANGED <<envVars, loopVars>>
  \/ \E st \in QKeys, a \in Actions, r \in Rewards, s2 \in QKeys,
        alpha \in Alphas, gamma \in Gammas :
          Update(st, a, r, s2, alpha, gamma) /\ UNCHANGED <<envVars, loopVars>>

SpecQ == InitQ /\ [][NextQ]_vars

\* ---- the agent with its snapshot file ----
SaveRewards == {999}

NextSave ==
  \/ \E st \in QKeys : Act(st, 0) /\ UNCHANGED <<envVars, loopVars>>
  \/ \E st \in QKeys : Greedy(st) /\ UNCHANGED <<envVars, loopVars>>
  \/ \E st \in QKeys, a \in Actions, r \in SaveRewards, s2 \in QKeys,
        alpha \in Alphas, gamma \in Gammas :
          Update(st, a, r, s2, alpha, gamma) /\ UNCHANGED <<envVars, loopVars>>
  \/ Save /\ UNCHANGED <<envVars, loopVars>>
  \/ Load /\ UNCHANGED <<envVars, loopVars>>

SpecSave == InitQ /\ [][NextSave]_vars

\* ---- the evaluation loop driving the simulator ----
NextEval ==
  \/ EvalReset
  \/ EvalStep
  \/ EvalEpisodeEnd
  \/ EvalReturn

SpecEval == EvalInit /\ [][NextEval]_vars

\* ---- the training loop driving the simulator and the agent ----
NextTrain ==
  \/ TrainReset
  \/ TrainStep
  \/ TrainEpisodeEnd
  \/ TrainReturn

SpecTrain == TrainInit /\ [][NextTrain]_vars

\* ---- main.py: the train mode and the eval mode side by side ----
InitMain == EvalInit \/ TrainInit

NextMain ==
  \/ mode = "eval" /\ NextEval
  \/ mode = "train" /\ NextTrain

SpecMain == InitMain /\ [][NextMain]_vars


(***************************************************************************)
(* Properties of the grid simulator                                        *)
(***************************************************************************)
InGrid(pos) == pos[1] \in 0..(n - 1) /\ pos[2] \in 0..(n - 1)

Returned == pc = "ready" /\ call.op \in {"reset", "step"}

LastCell(sq) == sq[Len(sq)]

Ate == call.op = "step" /\ <<"ate", TRUE>> \in ret.info

\* the cell step(a) proposes as the new head, from the state before the call
Proposed(a) == Ahead(snake[1], _turn(dir, a))

\* C1: whenever reset or step has returned, the food cell is inside the grid
\* and is not a cell of the snake body.
C1_FoodOffSnake ==
  Returned => InGrid(food) /\ \A i \in 1..Len(snake) : snake[i] # food

\* a step ate and placed new food while the snake already had 4 cells
C1_Witness == Ate /\ pc = "ready" /\ Len(snake) >= 4 /\ InGrid(food)

\* C2: whenever reset or step has returned, the snake has at least 2 cells,
\* the cells are pairwise distinct and all lie in the grid.
C2_SnakeWellFormed ==
  Returned =>
    /\ Len(snake) >= 2
    /\ \A i, j \in 1..Len(snake) : i # j => snake[i] # snake[j]
    /\ \A i \in 1..Len(snake) : InGrid(snake[i])

\* a non-eating step moved a 5-cell snake whose head touches its own body
C2_Witness ==
  /\ Returned /\ call.op = "step" /\ ~ret.done /\ ~Ate
  /\ Len(snake) = 5
  /\ \E i \in 3..5 : _manhattan(snake[1], snake[i]) = 1

\* cell c is off-grid or a snake cell other than the tail
Blocked(c) == ~InGrid(c) \/ c \in (SetOf(snake) \ {LastCell(snake)})

Flag(b) == IF b THEN 1 ELSE 0

\* C3: in every encoded state returned by reset or step, danger-front is 1
\* iff the cell ahead of the head along the heading is off-grid or a snake
\* cell other than the tail; danger-left and danger-right likewise for the
\* headings (dir-1) mod 4 and (dir+1) mod 4.
C3_DangerFlags ==
  Returned =>
    /\ ret.state[1] = Flag(Blocked(Ahead(snake[1], (dir - 1) % 4)))
    /\ ret.state[2] = Flag(Blocked(Ahead(snake[1], dir)))
    /\ ret.state[3] = Flag(Blocked(Ahead(snake[1], (dir + 1) % 4)))

\* the tail is the cell straight ahead and danger-front is 0, while another
\* body cell is beside the head and flagged
C3_Witness ==
  /\ Returned
  /\ Ahead(snake[1], dir) = LastCell(snake)
  /\ ret.state[2] = 0
  /\ ret.state[1] + ret.state[3] >= 1

\* C4: a step whose proposed head is outside the grid returns reward -10
\* and done = true, whatever happened before.
C4_WallKills ==
  [][(pc = "ready" /\ call'.op = "step" /\ ~InGrid(Proposed(call'.action)))
       => (pc' = "ready" /\ ret'.reward = -1000 /\ ret'.done = TRUE)]_vars

\* a grown snake, several steps into the episode, has just run into a wall
C4_Witness ==
  /\ Returned /\ call.op = "step" /\ ret.done /\ ret.reward = -1000
  /\ ~InGrid(Ahead(snake[1], dir))
  /\ Len(snake) >= 3 /\ steps >= 3

\* C5: an eating step lengthens the snake by exactly 1 and keeps the old
\* tail as the last cell; a non-terminating non-eating step keeps the length.
C5_GrowOnEat ==
  [][(pc = "ready" /\ call'.op = "step") =>
       /\ (Proposed(call'.action) = food =>
             /\ Len(snake') = Len(snake) + 1
             /\ LastCell(snake') = LastCell(snake))
       /\ (Proposed(call'.action) # food /\ pc' = "ready" /\ ~ret'.done =>
             Len(snake') = Len(snake))]_vars

\* a step has just eaten and the snake now has 3 cells, tail where it was
C5_Witness ==
  /\ Ate /\ Len(snake) = 3 /\ LastCell(snake) = LastCell(StartBody(n)) /\ pc = "ready"

HasAteKey(info) == \E b \in BOOLEAN : <<"ate", b>> \in info

\* C6 as stated: every call to step, terminating or not, returns an info
\* map with an "ate" boolean.
C6_AlwaysAteKey ==
  (pc = "ready" /\ call.op = "step") => HasAteKey(ret.info)

\* C6 as amended: a step that does not terminate returns an info map whose
\* only entry is "ate" with a boolean; a terminating step returns the empty map.
C6_AteKeyUnlessDone ==
  (pc = "ready" /\ call.op = "step") =>
    IF ret.done THEN ret.info = {}
    ELSE \E b \in BOOLEAN : ret.info = {<<"ate", b>>}

\* both shapes seen: a non-eating move that returned ate = FALSE
C6_Witness ==
  /\ pc = "ready" /\ call.op = "step" /\ ~ret.done
  /\ ret.info = {<<"ate", FALSE>>} /\ steps >= 2

\* C7 as stated: reset and step never raise, for every grid size n >= 1.
C7_NeverRaises == pc # "raised"

(***************************************************************************)
(* Properties of the agent                                                 *)
(***************************************************************************)
\* the value vector a lookup of key k sees: all zeros when k is absent
Read0(table, k) == IF k \in DOMAIN table THEN table[k] ELSE <<0, 0, 0>>

IsBest(vec, a) == \A i \in 1..Len(vec) : vec[i] <= vec[a + 1]

\* C8: act(state, eps = 0) returns an action whose value is the maximum of
\* the state's vector (all zeros if the state was unseen); every maximizer
\* is a possible result; the vector [1.0, 0.0, -1.0] always yields action 0.
C8_GreedyAct ==
  /\ [][(qcall'.op = "act" /\ qcall'.eps = 0) =>
          /\ IsBest(Read0(Q, qcall'.s), qret')
          /\ (Read0(Q, qcall'.s) = <<100, 0, -100>> => qret' = 0)]_vars
  /\ [](\A st \in QKeys : \A m \in 0..2 :
          IsBest(Read0(Q, st), m) => ENABLED (Act(st, 0) /\ qret' = m))

\* act with eps = 0 broke a tie in favour of the last action
C8_Witness ==
  /\ qcall.op = "act" /\ qcall.eps = 0
  /\ qcall.s \in DOMAIN Q /\ Q[qcall.s] = <<0, 100, 100>>
  /\ qret = 2

\* C9: update sets Q[s][a] to Q[s][a] + alpha * (r + gamma * max Q[s2] - Q[s][a]),
\* all read from the table before the call with absent keys read as zeros,
\* leaves every other entry unchanged and adds no key other than s and s2.
C9_UpdateRule ==
  [][qcall'.op = "update" =>
       LET c == qcall'
           old == Read0(Q, c.s)[c.a + 1]
           target == old + FMul(c.alpha, c.r + FMul(c.gamma, NpMax(Read0(Q, c.s2))) - old)
       IN /\ DOMAIN Q \subseteq DOMAIN Q'
          /\ DOMAIN Q' \subseteq DOMAIN Q \cup {c.s, c.s2}
          /\ \A k \in DOMAIN Q' : \A i \in 1..ActionCount :
               Q'[k][i] = IF k = c.s /\ i = c.a + 1 THEN target ELSE Read0(Q, k)[i]]_vars

\* an update from s to a different s2 whose vector has a non-zero maximum
C9_Witness ==
  /\ qcall.op = "update" /\ qcall.s # qcall.s2
  /\ DOMAIN Q = {qcall.s, qcall.s2}
  /\ Q[qcall.s2] = <<100, 0, -100>>
  /\ Q[qcall.s][qcall.a + 1] # 0

(***************************************************************************)
(* Properties of the evaluation loop                                       *)
(***************************************************************************)
\* C10: evaluate never changes the table: no step of it adds a key or
\* changes a value vector, also when the state met is not a key.
C10_EvalReadOnly ==
  [][/\ DOMAIN Q' = DOMAIN Q
     /\ \A k \in DOMAIN Q : Q'[k] = Q[k]]_vars

\* an evaluation has returned with a score, over a table that holds a key
\* for the start heading whose best action is go-straight, and the last
\* state it looked up is not a key of the table
C10_Witness ==
  /\ lpc = "returned"
  /\ DOMAIN Q # {}
  /\ ret.state \notin DOMAIN Q
  /\ \E i \in 1..Len(totals) : totals[i] >= 1
  /\ \E k \in DOMAIN Q : k[6] = StartDir /\ NpArgmax(Q[k]) = 1

\* C11 as stated: evaluate with episodes = 0 returns its statistics record
\* without raising, the mean being nan or zero.
C11_ZeroEpisodesReturns ==
  (episodes = 0 /\ lpc \notin {"for", "while"}) =>
    /\ lpc = "returned"
    /\ result.kind = "eval"
    /\ (result.mean_score.nan \/ result.mean_score.v = 0)

(***************************************************************************)
(* Properties of the snapshot                                              *)
(***************************************************************************)
BestSet(vec) == {a \in 0..(Len(vec) - 1) : IsBest(vec, a)}

\* C12: after save then load, the table has the same action count and, for
\* every key present at the save, the same value vector, so act with
\* eps = 0 and greedy choose among the same maximizing actions as before.
C12_RoundTrip ==
  qcall.op = "load" =>
    /\ snapshot.actions = ActionCount
    /\ \A k \in DOMAIN saved :
         /\ k \in DOMAIN Q
         /\ Len(Q[k]) = ActionCount
         /\ Q[k] = saved[k]
         /\ \A m \in BestSet(saved[k]) : ENABLED (Act(k, 0) /\ qret' = m)
         /\ \A m \in 0..(ActionCount - 1) :
              ENABLED (Act(k, 0) /\ qret' = m) => m \in BestSet(saved[k])
         /\ ENABLED (Greedy(k) /\ qret' \in BestSet(saved[k]))

\* a table that an update had changed was saved and then loaded back
C12_Witness ==
  /\ qcall.op = "load"
  /\ \E k \in DOMAIN saved : saved[k] \notin QVectors /\ Q[k] = saved[k]
  /\ nupd >= 1

(***************************************************************************)
(* More properties of the grid simulator                                   *)
(***************************************************************************)
\* C13: on the 12 x 12 grid reset puts the snake at [(6,6),(5,6)] heading
\* right; whatever the food placements, each of the first five go-straight
\* steps returns done = false and moves the head one cell right, up to
\* (11,6), and the next go-straight step returns done = true, reward -10.
C13_StraightRun ==
  /\ [](Returned =>
          /\ dir = 1
          /\ steps <= 5
          /\ snake[1] = <<6 + steps, 6>>
          /\ (call.op = "reset" => snake = << <<6, 6>>, <<5, 6>> >> /\ steps = 0))
  /\ [][call'.op = "step" =>
          IF steps < 5
          THEN pc' = "ready" /\ ~ret'.done /\ steps' = steps + 1
          ELSE pc' = "ready" /\ ret'.done /\ ret'.reward = -1000 /\ snake'[1] = <<11, 6>>]_vars

\* the sixth step has hit the wall at (11,6) after the snake ate on its way
C13_Witness ==
  /\ n = 12 /\ call.op = "step" /\ ret.done /\ ret.reward = -1000
  /\ snake[1] = <<11, 6>> /\ Len(snake) >= 4

Closer(d, prev) == IF d < prev THEN 5 ELSE IF d > prev THEN -2 ELSE 0

\* C15: a non-terminating step returns -0.01, plus 10 if it ate, plus the
\* shaping term (+0.05 closer, -0.02 farther, 0 equal) comparing the distance
\* from the new head to the food present after the step with the recorded
\* distance; the recorded distance then becomes that distance.
C15_Reward ==
  [][(pc = "ready" /\ call'.op = "step" /\ pc' = "ready" /\ ~ret'.done) =>
       LET d == _manhattan(snake'[1], food')
           ate == Proposed(call'.action) = food
       IN /\ snake'[1] = Proposed(call'.action)
          /\ ret'.reward = -1 + (IF ate THEN 1000 ELSE 0) + Closer(d, prev_dist)
          /\ prev_dist' = d]_vars

\* an eating step was paid 10 - 0.01 - 0.02: the new food is farther away
C15_Witness ==
  /\ Ate /\ pc = "ready" /\ ret.reward = 997 /\ prev_dist >= 2

\* C16: a step whose proposed head is in the grid terminates (reward -10)
\* iff that cell is a body cell other than the current tail; a step into the
\* tail cell is carried out as a non-eating move; a step onto the food never
\* terminates by self-collision.
C16_SelfCollision ==
  [][(pc = "ready" /\ call'.op = "step" /\ InGrid(Proposed(call'.action))) =>
       LET c == Proposed(call'.action)
           died == pc' = "ready" /\ ret'.done
       IN /\ died <=> (\E i \in 1..(Len(snake) - 1) : snake[i] = c)
          /\ (died => ret'.reward = -1000)
          /\ (c = LastCell(snake) =>
                /\ pc' = "ready" /\ ~ret'.done
                /\ ret'.info = {<<"ate", FALSE>>}
                /\ Len(snake') = Len(snake) /\ snake'[1] = c)
          /\ (c = food => ~died)]_vars

\* a non-eating step moved the head into the cell the tail was leaving: every
\* grid neighbour of the new tail, the cell just vacated included, is a snake cell
C16_Witness ==
  /\ call.op = "step" /\ pc = "ready" /\ ~ret.done /\ ~Ate
  /\ Len(snake) >= 4
  /\ \A d \in 0..3 :
       InGrid(Ahead(LastCell(snake), d)) => Ahead(LastCell(snake), d) \in SetOf(snake)

\* C17: a terminating step commits nothing: snake, food, step counter and
\* recorded distance are unchanged, the heading is the one after the turn,
\* and the returned state is the encoding of the unchanged body and food
\* under that heading.
C17_DeathKeepsState ==
  [][(pc = "ready" /\ call'.op = "step" /\ pc' = "ready" /\ ret'.done) =>
       LET a == call'.action
           h == (dir + a - 1) % 4
       IN /\ snake' = snake /\ food' = food /\ steps' = steps /\ prev_dist' = prev_dist
          /\ dir' = h
          /\ ret'.state[6] = h
          /\ ret'.state[1] = Flag(Blocked(Ahead(snake[1], (h - 1) % 4)))
          /\ ret'.state[2] = Flag(Blocked(Ahead(snake[1], h)))
          /\ ret'.state[3] = Flag(Blocked(Ahead(snake[1], (h + 1) % 4)))
          /\ ret'.state[4] = Sign(food[1], snake[1][1])
          /\ ret'.state[5] = Sign(food[2], snake[1][2])]_vars

\* a turning step ran into the snake's own body and was not committed
C17_Witness ==
  /\ call.op = "step" /\ call.action # 1 /\ pc = "ready" /\ ret.done
  /\ InGrid(Ahead(snake[1], dir))
  /\ steps >= 3

\* C20: for every state s returned by reset or step and every action a, the
\* next step(a) returns done = true iff component a of s is 1.
C20_DangerPredictsDeath ==
  [][(Returned /\ call'.op = "step") =>
       ((pc' = "ready" /\ ret'.done) <=> ret.state[call'.action + 1] = 1)]_vars

\* a left turn ran into the snake's own body; the state returned flags that
\* cell, which is now straight ahead
C20_Witness ==
  /\ call.op = "step" /\ call.action = 0 /\ pc = "ready" /\ ret.done
  /\ InGrid(Ahead(snake[1], dir)) /\ ret.state[2] = 1
  /\ Len(snake) >= 5

(***************************************************************************)
(* Properties of the training loop                                         *)
(***************************************************************************)
\* C14 as stated: train always runs to its end and records exactly E
\* scores; an episode makes at most max_steps calls to step, none of them
\* after a step returned done, and an episode cut by the cap is recorded
\* like any other.
C14_TrainRecordsAll ==
  /\ lpc # "raised"
  /\ lsteps <= max_steps
  /\ Len(totals) = ep
  /\ ep <= episodes
  /\ (lpc = "returned" => Len(totals) = episodes)
  /\ (lpc = "while" /\ ret.done => call.op = "step")

\* the exploration rate the claim gives for episode e of total
ClaimedEps(e, total) ==
  Max2(eps_end, eps_start - ((eps_start - eps_end) * ((e * Scale) \div total)) \div Scale)

\* C18: every action of episode ep (1 <= ep <= E) is chosen with
\* eps = max(eps_end, eps_start - (eps_start - eps_end) * ep / E); with
\* eps_start >= eps_end it is constant within the episode, does not increase
\* from one episode to the next, lies in [eps_end, eps_start] and is
\* eps_end in episode E.
C18_EpsSchedule ==
  /\ [](lpc = "while" =>
          /\ train_eps = ClaimedEps(ep + 1, episodes)
          /\ eps_end <= train_eps /\ train_eps <= eps_start
          /\ (ep + 1 = episodes => train_eps = eps_end))
  /\ [][/\ (lpc = "while" /\ lpc' = "while" => train_eps' = train_eps)
        /\ (lpc' = "while" /\ lsteps' > lsteps =>
              qcall'.eps = ClaimedEps(ep + 1, episodes))
        /\ (lpc = "for" /\ lpc' = "while" /\ ep >= 1 => train_eps' <= train_eps)]_vars

\* an action of episode 1 of 2 was chosen with the rate half way down
C18_Witness ==
  /\ lpc = "while" /\ episodes = 2 /\ ep = 0 /\ lsteps >= 1
  /\ eps_start = 100 /\ eps_end = 0
  /\ qcall.eps = 50 /\ train_eps = 50

\* C19: after every completed episode the tracked best score is the maximum
\* of the scores recorded so far and the best episode is the first one that
\* reached it; the metrics report both.
C19_BestBookmark ==
  /\ (Len(totals) >= 1 =>
        /\ \A i \in 1..Len(totals) : totals[i] <= best.score
        /\ best.episode \in 1..Len(totals)
        /\ totals[best.episode] = best.score
        /\ \A i \in 1..Len(totals) : totals[i] = best.score => best.episode <= i)
  /\ (lpc = "returned" /\ episodes >= 1 =>
        /\ result.best_score = best.score
        /\ result.best_episode = best.episode)

\* two episodes reached the same positive score and the bookmark stayed on
\* the first
C19_Witness ==
  /\ lpc = "returned" /\ Len(totals) >= 2
  /\ totals[1] >= 1 /\ totals[2] = totals[1]
  /\ best.episode = 1 /\ result.best_episode = 1

(***************************************************************************)
(* The recorded food distance                                              *)
(***************************************************************************)
\* the distance the claims speak of, written out
CellGap(a, b) == Abs(a[1] - b[1]) + Abs(a[2] - b[2])

\* C21: after every reset and every step the recorded food distance is the
\* Manhattan distance between the head and the current food, so it is 1 just
\* before an eating step; an eating step never gets the closer bonus: it is
\* paid 9.99 when the new food is next to the new head and 9.97 otherwise.
C21_RecordedDistance ==
  /\ [](Returned => prev_dist = CellGap(snake[1], food))
  /\ [][(pc = "ready" /\ call'.op = "step" /\ pc' = "ready" /\ ~ret'.done
          /\ <<"ate", TRUE>> \in ret'.info) =>
          /\ prev_dist = 1
          /\ ret'.reward = IF CellGap(snake'[1], food') = 1 THEN 999 ELSE 997]_vars

\* an eating step found the new food right next to the new head
C21_Witness ==
  /\ Ate /\ pc = "ready" /\ ~ret.done /\ ret.reward = 999
  /\ CellGap(snake[1], food) = 1 /\ prev_dist = 1

(***************************************************************************)
(* Score and snake length                                                  *)
(***************************************************************************)
\* an episode of the running loop has just been recorded
EpisodeRecorded == Len(totals') = Len(totals) + 1

\* C22: at the end of every episode of train and of evaluate, ended by death
\* or by the step cap, the recorded score (the number of steps whose info
\* reported ate) is the snake length minus 2.
C22_ScoreIsGrowth ==
  [][EpisodeRecorded =>
       /\ mode \in {"eval", "train"}
       /\ ret.done \/ lsteps >= max_steps
       /\ totals'[Len(totals')] = score
       /\ score = Len(snake') - 2]_vars

\* a training episode that had eaten twice ended by death and was recorded
C22_Witness ==
  /\ mode = "train" /\ lpc = "for" /\ Len(totals) >= 1
  /\ ret.done /\ LastCell(totals) = 2 /\ Len(snake) = 4

====
